---- MODULE Spec2Model ----
(***************************************************************************)
(* A model of the coracle publication engine: the last-writer-wins record  *)
(* merge (updateRecord), the freshness-gated selection of stale pubkeys    *)
(* (getStalePubkeys) and the group publish routing of                      *)
(* src/engine/commands.ts.                                                 *)
(***************************************************************************)
EXTENDS Integers, Sequences, FiniteSets, TLC

VARIABLES
  record,       \* the versioned record held by a store (store.get())
  lastUpdate,   \* arguments of the last updateStore call, or NoUpdate
  repeats,      \* how many times in a row lastUpdate has been applied
  batch,        \* a list of (timestamp, updates) pairs merged both ways
  mergeAsc,     \* the record after applying batch in ascending order
  mergeDesc,    \* the record after applying batch in the reverse order
  now,          \* the clock read by now(), in seconds
  freshness,    \* the freshness store: namespace -> pubkey -> timestamp
  attempts,     \* the attempts map of the loader: pubkey -> count (0: absent)
  staleCall,    \* the loadPubkeyData call that has just returned, or NoCall
  loads,        \* the load requests issued: namespace -> pubkey -> instant
                \* of the latest request for that author (-1: none)
  thenCall,     \* the loadPubkeys call in progress and what it has left to do
  handles,      \* the handles store: pubkey -> the nip05 of the stored handle
  lookups,      \* the loadHandle calls made, each pending, verified or failed
  zappers,      \* the zappers store: the pubkeys with a zapper
  nip44Enabled, \* nip44.get().isEnabled()
  adminKeys,    \* groupAdminKeys: the admin keys held locally
  sharedKeys,   \* groupSharedKeys: the shared keys held locally
  access,       \* session.groups of the user's session: address -> status record
  call,         \* the publish operation in progress, or NoOp
  signerEnabled,           \* signer.get().isEnabled()
  optimisticReadReceipts,  \* the ids marked as seen in local state only
  seenCall,                \* the markAsSeen call in progress, or NoSeen
  sessions,      \* the sessions store: pubkey -> session
  currentPubkey, \* the pubkey store: the current pubkey, or NoPubkey for null
  threw,         \* whether the last session command raised
  upload,        \* the uploadFileToHost call in progress, or NoUpload
  debounced,     \* a start() call waits for the debounce timer
  active,        \* the active flag of the scroller
  stopped,       \* stop() was called and start() has not been called since
  loops,         \* the fill loops of the scroller: where each one stands
  cursorDelta    \* cursor.delta of the scroller's cursor

recordVars == <<record, lastUpdate, repeats, batch, mergeAsc, mergeDesc>>
loaderVars == <<now, freshness, attempts, staleCall, loads, thenCall, handles, zappers, lookups>>

groupVars == <<nip44Enabled, adminKeys, sharedKeys, access, call>>

seenVars == <<signerEnabled, optimisticReadReceipts, seenCall>>

sessionVars == <<sessions, currentPubkey, threw>>

uploadVars == <<upload>>

scrollVars == <<debounced, active, stopped, loops, cursorDelta>>

uiVars == <<uploadVars, scrollVars>>

vars == <<recordVars, loaderVars, groupVars, seenVars, sessionVars, uiVars>>

----------------------------------------------------------------------------
(* Bounds *)

MaxTs == 2
MaxBatch == 2
MaxList == 2       \* longest pubkey list passed to the loader
MaxAttempts == 4   \* the loader is not called for a pubkey tried this often
MaxAddresses == 2  \* longest address list passed to a publish operation
MaxTargets == 2    \* longest pubkey list passed to a key share operation
MaxChunks == 2     \* most full chunks of ids handed to markAsSeen at once

----------------------------------------------------------------------------
(* Record merge: updateRecord / updateStore *)

Fields == {"a", "b"}
FieldValues == {"x", "y"}
Timestamps == 0..MaxTs

NoUpdate == [timestamp |-> -1, updates |-> <<>>]

\* The record of a store that was never written: record?.[k] is undefined
\* for every k, and {...record} is {}.
EmptyRecord == [k \in {} |-> 0]

Max(a, b) == IF a > b THEN a ELSE b

TsField(field) == field \o "_updated_at"

\* JavaScript's  record?.[key] || dflt  for a numeric slot: the default is
\* taken when the key is absent and also when the stored number is 0.
OrDefault(rec, key, dflt) ==
  IF key \in DOMAIN rec /\ rec[key] # 0 THEN rec[key] ELSE dflt

\* {...record, [field]: value, [tsField]: timestamp, updated_at: updatedAt}
Spread(rec, field, value, timestamp, updatedAt) ==
  [k \in DOMAIN rec \cup {field, TsField(field), "updated_at"} |->
     IF k = field THEN value
     ELSE IF k = TsField(field) THEN timestamp
     ELSE IF k = "updated_at" THEN updatedAt
     ELSE rec[k]]

\* The iteration with the record-level stamp compared instead of the field's.
UpdateFieldByRecordStamp(rec, timestamp, field, value) ==
  LET lastUpdated == OrDefault(rec, "updated_at", -1)
  IN IF timestamp > lastUpdated
       THEN Spread(rec, field, value, timestamp,
                   Max(timestamp, OrDefault(rec, "updated_at", 0)))
       ELSE rec

\* The iteration with the field stamped by the record's previous updated_at
\* instead of the incoming timestamp.
UpdateFieldStampPrev(rec, timestamp, field, value) ==
  LET lastUpdated == OrDefault(rec, TsField(field), -1)
  IN IF timestamp > lastUpdated
       THEN Spread(rec, field, value, OrDefault(rec, "updated_at", 0),
                   Max(timestamp, OrDefault(rec, "updated_at", 0)))
       ELSE rec

\* The iteration with updated_at overwritten by the incoming timestamp.
UpdateFieldNoMax(rec, timestamp, field, value) ==
  LET lastUpdated == OrDefault(rec, TsField(field), -1)
  IN IF timestamp > lastUpdated
       THEN Spread(rec, field, value, timestamp, timestamp)
       ELSE rec

\* One iteration of the loop of updateRecord.
UpdateField(rec, timestamp, field, value) ==
  LET lastUpdated == OrDefault(rec, TsField(field), -1)
  IN IF timestamp > lastUpdated
       THEN Spread(rec, field, value, timestamp,
                   Max(timestamp, OrDefault(rec, "updated_at", 0)))
       ELSE rec

RECURSIVE updateRecord(_, _, _)
\* updates is the list Object.entries(updates): <<field, value>> pairs
updateRecord(rec, timestamp, updates) ==
  IF updates = <<>> THEN rec
  ELSE updateRecord(UpdateField(rec, timestamp, Head(updates)[1], Head(updates)[2]),
                    timestamp, Tail(updates))

\* The updates objects the callers pass: one or two distinct fields.
UpdateObjects ==
  { <<e>> : e \in Fields \X FieldValues } \cup
  { <<e1, e2>> : e1 \in {"a"} \X FieldValues, e2 \in {"b"} \X FieldValues } \cup
  { <<e1, e2>> : e1 \in {"b"} \X FieldValues, e2 \in {"a"} \X FieldValues }

\* updateStore(store, timestamp, updates)
UpdateStore(timestamp, updates) ==
  LET u == [timestamp |-> timestamp, updates |-> updates]
  IN /\ record' = updateRecord(record, timestamp, updates)
     /\ lastUpdate' = u
     /\ repeats' = IF lastUpdate = u THEN (IF repeats < 2 THEN repeats + 1 ELSE 2) ELSE 1
     /\ batch' = <<>>
     /\ mergeAsc' = EmptyRecord
     /\ mergeDesc' = EmptyRecord
     /\ UNCHANGED <<loaderVars, groupVars, seenVars, sessionVars, uiVars>>

Reverse(s) == [i \in 1..Len(s) |-> s[Len(s) + 1 - i]]

RECURSIVE ApplyAll(_, _)
ApplyAll(rec, pairs) ==
  IF pairs = <<>> THEN rec
  ELSE ApplyAll(updateRecord(rec, Head(pairs).timestamp, Head(pairs).updates), Tail(pairs))

BatchUpdates == { <<<<"a", "x">>>>, <<<<"a", "y">>>>, <<<<"a", "x">>, <<"b", "y">>>> }
BatchPairs == [timestamp : Timestamps, updates : BatchUpdates]

Ascending(pairs) ==
  \A i \in 1..(Len(pairs) - 1) : pairs[i].timestamp <= pairs[i + 1].timestamp

Batches ==
  { b \in UNION { [1..n -> BatchPairs] : n \in 1..MaxBatch } : Ascending(b) }

\* The same pairs merged into the stored record in ascending timestamp
\* order and in the reverse order.
MergeBatch(pairs) ==
  /\ batch = <<>>
  /\ batch' = pairs
  /\ mergeAsc' = ApplyAll(record, pairs)
  /\ mergeDesc' = ApplyAll(record, Reverse(pairs))
  /\ lastUpdate' = NoUpdate
  /\ repeats' = 0
  /\ UNCHANGED <<record, loaderVars, groupVars, seenVars, sessionVars, uiVars>>

----------------------------------------------------------------------------
(* Freshness-gated loader: getStalePubkeys / loadPubkeyData *)

PubkeyLength == 64
ForceDelta == 5
StaleDelta == 300

\* The characters from "/" (code 47) to "_" (code 95) and from "a" (code 97)
\* to "g" (code 103), in code order.
AsciiLow == "/0123456789:;<=>?@ABCDEFGHIJKLMNOPQRSTUVWXYZ[\\]^_"
AsciiHigh == "abcdefg"

IndexIn(c, table) == CHOOSE i \in 1..Len(table) : SubSeq(table, i, i) = c

CharCode(c) ==
  IF \E i \in 1..Len(AsciiHigh) : SubSeq(AsciiHigh, i, i) = c
    THEN 96 + IndexIn(c, AsciiHigh)
    ELSE 46 + IndexIn(c, AsciiLow)

CharAt(s, i) == SubSeq(s, i, i)

\* pubkey.match(/^[0-f]{64}$/): 64 characters, each in the range "0".."f"
MatchesPubkeyRegex(s) ==
  /\ Len(s) = PubkeyLength
  /\ \A i \in 1..Len(s) :
        /\ CharCode(CharAt(s, i)) >= CharCode("0")
        /\ CharCode(CharAt(s, i)) <= CharCode("f")

RECURSIVE Repeat(_, _)
Repeat(c, n) == IF n = 0 THEN "" ELSE c \o Repeat(c, n - 1)

HexKey == Repeat("0f", 32)           \* 64 lowercase hex characters
UpperKey == Repeat("A", 64)          \* 64 uppercase hex characters
LetterKey == Repeat("g", 64)         \* 64 characters above "f"
ShortKey == Repeat("a", 63)

Pubkeys == {HexKey, UpperKey, LetterKey, ShortKey}

\* The pubkeys of the model that pass the test of getStalePubkeys.
MatchingPubkeys == { p \in Pubkeys : MatchesPubkeyRegex(p) }

\* loadPubkeyProfiles, loadPubkeyRelays: the namespaces of the loader
ProfileKey == "pubkey/profile"
RelayKey == "pubkey/relay"

Namespaces == {ProfileKey, RelayKey, "handle", "zapper"}

\* The instants at which the clock is read.
Instants == {0, 5, 6, 300, 301, 1200, 1201}

NoCall == [key |-> "", pubkeys |-> <<>>, force |-> FALSE, delta |-> 0, result |-> <<>>]

\* inc of @welshman/lib on attempts.get(pubkey): (x || 0) + 1
Inc(x) == x + 1

\* getFreshness(key, pubkey)
GetFreshness(key, pubkey) == freshness[key][pubkey]

\* setFreshness(key, pubkey, ts): a write never moves the value backward
SetFreshness(fr, key, pubkey, ts) ==
  [fr EXCEPT ![key][pubkey] = Max(@, ts)]

\* The staleness test with the boundary included.
IsStaleOrEqual(fresh, thisDelta) == fresh <= now - thisDelta

\* getFreshness(key, pubkey) < now() - thisDelta
IsStale(fresh, thisDelta) == fresh < now - thisDelta

Range(seq) == { seq[i] : i \in 1..Len(seq) }

InSeq(x, s) == \E i \in 1..Len(s) : s[i] = x

\* result.add(pubkey) on a Set that Array.from lists in insertion order
SetAdd(s, x) == IF InSeq(x, s) THEN s ELSE Append(s, x)

RECURSIVE StaleLoopCountsAll(_, _, _, _, _)
\* The loop with attempts.set moved ahead of the freshness test.
StaleLoopCountsAll(pubkeys, key, delta, att, result) ==
  IF pubkeys = <<>> THEN [attempts |-> att, result |-> result]
  ELSE LET pubkey == Head(pubkeys)
           thisAttempts == Inc(att[pubkey])
           thisDelta == delta * thisAttempts
       IN IF pubkey \notin MatchingPubkeys
            THEN StaleLoopCountsAll(Tail(pubkeys), key, delta, att, result)
            ELSE StaleLoopCountsAll(Tail(pubkeys), key, delta,
                                    [att EXCEPT ![pubkey] = thisAttempts],
                                    IF IsStale(GetFreshness(key, pubkey), thisDelta)
                                      THEN SetAdd(result, pubkey) ELSE result)

RECURSIVE StaleLoop(_, _, _, _, _)
\* The loop of getStalePubkeys over the rest of the list; att and result are
\* the attempts map and the result set so far.
StaleLoop(pubkeys, key, delta, att, result) ==
  IF pubkeys = <<>> THEN [attempts |-> att, result |-> result]
  ELSE LET pubkey == Head(pubkeys)
           thisAttempts == Inc(att[pubkey])
           thisDelta == delta * thisAttempts
       IN IF pubkey \notin MatchingPubkeys
            THEN StaleLoop(Tail(pubkeys), key, delta, att, result)
            ELSE IF IsStale(GetFreshness(key, pubkey), thisDelta)
              THEN StaleLoop(Tail(pubkeys), key, delta,
                             [att EXCEPT ![pubkey] = thisAttempts],
                             SetAdd(result, pubkey))
              ELSE StaleLoop(Tail(pubkeys), key, delta, att, result)

getStalePubkeys(pubkeys, key, delta) == StaleLoop(pubkeys, key, delta, attempts, <<>>)

PubkeyLists == UNION { [1..n -> Pubkeys] : n \in 0..MaxList }

\* loadPubkeys has nothing left to do.
\* immediate: the promise of loadPubkeyRelays is already resolved (nothing was
\* stale); fetched: what the concurrent loadPubkeyProfiles call selected.
NoThen == [stage |-> "none", pubkeys |-> <<>>, force |-> FALSE, immediate |-> FALSE,
           fetched |-> <<>>]

\* The load calls of loadPubkeyData: one request per selected author.
IssueLoads(ld, key, result) ==
  [ld EXCEPT ![key] = [p \in Pubkeys |-> IF InSeq(p, result) THEN now ELSE @[p]]]

\* loadPubkeyData(key, kinds, rawPubkeys, {force}) up to its return: the
\* stale pubkeys are selected and, unless there are none, requested.
StartLoad(key, rawPubkeys, force) ==
  LET delta == IF force THEN ForceDelta ELSE StaleDelta
      sel == getStalePubkeys(rawPubkeys, key, delta)
  IN /\ staleCall = NoCall
     /\ \A i \in 1..Len(rawPubkeys) : attempts[rawPubkeys[i]] < MaxAttempts
     /\ attempts' = sel.attempts
     /\ staleCall' = [key |-> key, pubkeys |-> rawPubkeys, force |-> force,
                      delta |-> delta, result |-> sel.result]
     /\ loads' = IF Len(sel.result) = 0 THEN loads
                                        ELSE IssueLoads(loads, key, sel.result)
     /\ UNCHANGED <<now, freshness, handles, zappers, lookups>>

\* Nothing runs between the synchronous calls of loadPubkeys, nor before the
\* continuation of a promise that is already resolved.
Settled == thenCall.stage = "none" \/ (thenCall.stage = "then" /\ ~thenCall.immediate)

LoadPubkeyData(key, rawPubkeys, force) ==
  /\ Settled
  /\ StartLoad(key, rawPubkeys, force)
  /\ UNCHANGED thenCall

\* loadPubkeys(pubkeys, opts): first loadPubkeyRelays(pubkeys, opts)
LoadPubkeys(pubkeys, force) ==
  /\ thenCall = NoThen
  /\ StartLoad(RelayKey, pubkeys, force)
  /\ thenCall' = [stage |-> "concurrent", pubkeys |-> pubkeys, force |-> force,
                  immediate |-> (Len(staleCall'.result) = 0), fetched |-> <<>>]

\* loadPubkeys: the second element of the array, loadPubkeyProfiles called
\* right after loadPubkeyRelays has returned its promise.
LoadProfilesConcurrent ==
  /\ thenCall.stage = "concurrent"
  /\ StartLoad(ProfileKey, thenCall.pubkeys, thenCall.force)
  /\ thenCall' = [thenCall EXCEPT !.stage = "then", !.fetched = staleCall'.result]

\* loadPubkeys: .then(() => loadPubkeyProfiles(pubkeys, opts)), run when the
\* relay loads have settled.
LoadProfilesThen ==
  /\ thenCall.stage = "then"
  /\ StartLoad(ProfileKey, thenCall.pubkeys, thenCall.force)
  /\ thenCall' = NoThen

\* The caller takes the promise loadPubkeyData returned.
LoadReturn ==
  /\ staleCall # NoCall
  /\ staleCall' = NoCall
  /\ UNCHANGED <<now, freshness, attempts, loads, thenCall, handles, zappers, lookups>>

\* onEvent of a load: an event by a requested author arrives.
OnEvent(key, pubkey) ==
  /\ staleCall = NoCall
  /\ Settled
  /\ loads[key][pubkey] >= 0
  /\ freshness' = SetFreshness(freshness, key, pubkey, now)
  /\ UNCHANGED <<now, attempts, staleCall, loads, thenCall, handles, zappers, lookups>>

\* Time passes.
Tick(t) ==
  /\ staleCall = NoCall
  /\ Settled
  /\ t > now
  /\ now' = t
  /\ UNCHANGED <<freshness, attempts, staleCall, loads, thenCall, handles, zappers, lookups>>

\* The created_at of the profile events handed to updateHandle and
\* updateZapper.
CreatedAts == 1..MaxTs

\* The lightning addresses of a profile: none, one getLnUrl cannot read, one
\* it can.
ZapAddresses == {"", "nobody", "lnurl1dp68gurn"}

\* getLnUrl(address): null when the address is neither an lnurl nor a
\* lightning address
GetLnUrl(address) == IF address = "lnurl1dp68gurn" THEN address ELSE ""

\* The freshness store after an unguarded plain write.
FreshnessOverwritten(fr, key, pubkey, created_at, wanted) ==
  [fr EXCEPT ![key][pubkey] = created_at]

\* The freshness store after the guard and the write of updateHandle and
\* updateZapper: nothing is written unless the profile asks for a lookup and
\* is newer than the stored freshness.
FreshnessAfterUpdate(fr, key, pubkey, created_at, wanted) ==
  IF ~wanted \/ fr[key][pubkey] >= created_at
    THEN fr
    ELSE SetFreshness(fr, key, pubkey, created_at)

\* The nip05 values of profiles; "" stands for a profile without one.
Nip05s == {"", "alice@a", "alice@b"}

\* assoc(key, value) on an object
Assoc(s, key, value) == [k \in DOMAIN s \cup {key} |-> IF k = key THEN value ELSE s[k]]

\* updateHandle({pubkey, created_at}, {nip05}) up to its await of loadHandle
updateHandle(pubkey, created_at, nip05) ==
  /\ staleCall = NoCall
  /\ Settled
  /\ freshness' = FreshnessAfterUpdate(freshness, "handle", pubkey, created_at, nip05 # "")
  /\ lookups' = IF freshness' # freshness
                  THEN lookups \cup {[pubkey |-> pubkey, created_at |-> created_at,
                                       nip05 |-> nip05, state |-> "pending"]}
                  ELSE lookups
  /\ UNCHANGED <<now, attempts, staleCall, loads, thenCall, handles, zappers>>

\* loadHandle(nip05) settles for one updateHandle call; verified is
\* handle?.pubkey === pubkey.
LoadHandleSettles(l, verified) ==
  /\ l \in lookups
  /\ l.state = "pending"
  /\ lookups' = (lookups \ {l}) \cup
                  {[l EXCEPT !.state = IF verified THEN "verified" ELSE "failed"]}
  /\ handles' = IF verified THEN Assoc(handles, l.pubkey, l.nip05) ELSE handles
  /\ UNCHANGED <<now, freshness, attempts, staleCall, loads, thenCall, zappers>>

\* updateZapper({pubkey, created_at}, {lud16, lud06}); allowed is the outcome
\* of loadZapper: zapper?.allowsNostr && zapper?.nostrPubkey.
updateZapper(pubkey, created_at, address, allowed) ==
  /\ staleCall = NoCall
  /\ Settled
  /\ freshness' = FreshnessAfterUpdate(freshness, "zapper", pubkey, created_at,
                                       address # "" /\ GetLnUrl(address) # "")
  /\ zappers' = IF freshness' # freshness /\ allowed THEN zappers \cup {pubkey}
                                                     ELSE zappers
  /\ UNCHANGED <<now, attempts, staleCall, loads, thenCall, handles, lookups>>

----------------------------------------------------------------------------
(* Groups: keys, wrapping and publish routing *)

PrivateKind == 35834
PublicKind == 34550
FallbackKind == 1060

PrivatePrefix == "35834:"
PublicPrefix == "34550:"

\* address.startsWith(prefix)
StartsWith(str, prefix) ==
  Len(str) >= Len(prefix) /\ SubSeq(str, 1, Len(prefix)) = prefix

\* Key pairs are named; generatePrivateKey() yields "sk" + name and
\* getPublicKey turns it into "pk" + name.
LocalKeyNames == {"A", "B"}
GetPublicKey(privkey) == "pk" \o SubSeq(privkey, 3, Len(privkey))

\* `${kind}:${pubkey}:${id}` with the id randomId() gave
MakeAddress(kind, pubkey) == ToString(kind) \o ":" \o pubkey \o ":g"

\* The shared key of a private group: the one initSharedKey generated, which
\* is also the one a key share for the group carries.
SharedKeyFor(address) ==
  LET privkey == "sks/" \o address
  IN [group |-> address, pubkey |-> "pks/" \o address, privkey |-> privkey]

ForeignPrivate == "35834:pkZ:g"
BadAddress == "note1qqq"

\* The addresses callers pass to the publish operations.
CallAddresses == { "35834:pkA:g", ForeignPrivate, "34550:pkB:g", BadAddress }

\* The private group addresses among them, whose access status is tracked.
PrivateAddresses == { a \in CallAddresses : StartsWith(a, PrivatePrefix) }

\* The group addresses callers pass to the key share operations.
GroupAddresses == { "35834:pkA:g", "34550:pkB:g", ForeignPrivate }

Users == {"pkAlice", "pkBob"}

\* The pubkey of the user's own session.
UserPubkey == "pkUser"

\* null, as the value of the pubkey store
NoPubkey == ""

\* Address.from(address).pubkey: the part between the two colons
AddressPubkey(address) ==
  LET colons == { i \in 1..Len(address) : SubSeq(address, i, i) = ":" }
      first == CHOOSE i \in colons : \A j \in colons : i <= j
      second == CHOOSE i \in colons \ {first} : \A j \in colons \ {first} : i <= j
  IN SubSeq(address, first + 1, second - 1)

AddressLists == UNION { [1..n -> CallAddresses] : n \in 0..MaxAddresses }
TargetLists == UNION { [1..n -> Users] : n \in 0..MaxTargets }

\* deriveAdminKeyForGroup(address).get(): the key, or none
HasAdminKey(address) == \E k \in adminKeys : k.group = address
AdminKeyFor(address) == CHOOSE k \in adminKeys : k.group = address

\* deriveSharedKeyForGroup(address).get(): the key, or none
HasSharedKey(address) == \E k \in sharedKeys : k.group = address
SharedKey(address) == CHOOSE k \in sharedKeys : k.group = address

\* deriveIsGroupMember(address).get(): the access status is Granted
IsGroupMember(address) ==
  /\ address \in DOMAIN access
  /\ "access" \in DOMAIN access[address]
  /\ access[address]["access"] = "Granted"

\* The access status the session holds for a group: None until one is set.
GroupAccess(address) ==
  IF "access" \in DOMAIN access[address] THEN access[address]["access"] ELSE "None"

\* The session store's value: the session of the current pubkey, if any
LoggedIn == currentPubkey \in DOMAIN sessions

NoWrap == [author |-> "", recipient |-> "", kind |-> 0, algo |-> "", tags |-> <<>>]
NoTemplate == [kind |-> 0, tags |-> <<>>]
NoEvent == [type |-> "none", signer |-> "", author |-> "", wrap |-> NoWrap,
            template |-> NoTemplate]

\* createEvent(kind, {tags})
CreateEvent(kind, tags) == [kind |-> kind, tags |-> tags]

\* The note a caller hands to the publish operations.
NoteTemplate == CreateEvent(1, <<>>)

\* sign(template, {anonymous}) and sign(template, {sk})
Sign(template, signer) ==
  [type |-> "signed", signer |-> signer, author |-> "", wrap |-> NoWrap,
   template |-> template]

\* nip59.get().wrap(template, {author, wrap}): the envelope rumor.wrap, with
\* the template sealed inside it
Nip59Wrap(template, author, wrap) ==
  [type |-> "wrap", signer |-> wrap.author, author |-> author, wrap |-> wrap,
   template |-> template]

\* The fallback envelope sent along with the plain one.
wrapWithBoth(template, author, wrap) ==
  IF nip44Enabled
    THEN <<Nip59Wrap(template, author, wrap),
           Nip59Wrap(template, author, [wrap EXCEPT !.kind = FallbackKind, !.algo = "nip04"])>>
    ELSE <<Nip59Wrap(template, author, [wrap EXCEPT !.kind = FallbackKind, !.algo = "nip04"])>>

\* wrapWithFallback(template, {author, wrap}): the events array it returns
wrapWithFallback(template, author, wrap) ==
  IF nip44Enabled
    THEN <<Nip59Wrap(template, author, wrap)>>
    ELSE <<Nip59Wrap(template, author, [wrap EXCEPT !.kind = FallbackKind, !.algo = "nip04"])>>

\* generatePrivateKey(): the n-th key generated within an operation
GeneratePrivateKey(n) == "ephemeral" \o ToString(n)

RECURSIVE ATags(_)
ATags(addresses) ==
  IF addresses = <<>> THEN <<>> ELSE <<<<"a", Head(addresses)>>>> \o ATags(Tail(addresses))

\* addATags(template, addresses)
addATags(template, addresses) ==
  [template EXCEPT !.tags = @ \o ATags(addresses)]

NoOp == [op |-> "", pc |-> "", stage |-> "", addresses |-> <<>>, address |-> "",
         template |-> NoTemplate, anonymous |-> FALSE, i |-> 0,
         rest |-> <<>>,   \* publishToZeroOrMoreGroups: the other branch's addresses
         keys |-> 0,      \* the private keys generated so far
         pending |-> <<>>, \* the events the awaited sign or wrap settles with
         pubs |-> <<>>, signs |-> 0]

Frame(op, stage, addresses, address, template, anonymous) ==
  [NoOp EXCEPT !.op = op, !.pc = "start", !.stage = stage, !.addresses = addresses,
               !.address = address, !.template = template, !.anonymous = anonymous,
               !.i = 1]

\* a throw inside the async function: the promise is rejected
Rejected(c) == [c EXCEPT !.pc = "rejected", !.pending = <<>>]
Resolved(c) == [c EXCEPT !.pc = "resolved", !.pending = <<>>]

\* publish({event, relays}) for each of the events
Published(c, events) == [c EXCEPT !.pubs = @ \o events]

\* The validation with only the first address looked at.
FirstAddressPublic(addresses) ==
  addresses = <<>> \/ StartsWith(addresses[1], PublicPrefix)

\* The validation loop of publishToGroupsPublicly passes.
AllAddressesPublic(addresses) ==
  \A i \in 1..Len(addresses) : StartsWith(addresses[i], PublicPrefix)

SignerOf(c) == IF c.anonymous THEN "anonymous" ELSE "user"

\* publishToGroupsPublicly up to its await of sign
PubliclyStart(c) ==
  IF ~AllAddressesPublic(c.addresses)
    THEN Rejected(c)
    ELSE [c EXCEPT !.pc = "signing", !.signs = @ + 1,
                   !.pending = <<Sign(addATags(c.template, c.addresses), SignerOf(c))>>]

\* publishToZeroOrMoreGroups after its private branch
AfterPrivate(c) ==
  IF c.op = "publishToZeroOrMoreGroups" /\ c.rest # <<>>
    THEN PubliclyStart([c EXCEPT !.stage = "public", !.addresses = c.rest,
                                 !.rest = c.addresses])
    ELSE Resolved(c)

\* The loop of publishToGroupsPrivately from address i up to its next await
PrivatelyStep(c) ==
  IF c.i > Len(c.addresses) THEN AfterPrivate(c)
  ELSE LET address == c.addresses[c.i]
       IN IF ~StartsWith(address, PrivatePrefix) THEN Rejected(c)
          ELSE IF ~IsGroupMember(address) THEN Rejected(c)
          ELSE IF ~HasSharedKey(address) THEN Rejected(c)
          ELSE [c EXCEPT !.pc = "wrapping",
                  !.keys = IF c.anonymous THEN @ + 1 ELSE @,
                  !.pending = wrapWithFallback(
                     addATags(c.template, <<address>>),
                     IF c.anonymous THEN GeneratePrivateKey(c.keys + 1) ELSE "",
                     [NoWrap EXCEPT !.author = SharedKey(address).privkey,
                                    !.recipient = SharedKey(address).pubkey])]

\* The key share published as a plain signed event.
KeyShareSigned(template, adminPrivkey, pubkey, n) == <<Sign(template, adminPrivkey)>>

\* The envelope publishKeyShares makes for one target pubkey.
KeyShareEnvelope(template, adminPrivkey, pubkey, n) ==
  wrapWithFallback(template, adminPrivkey,
                   [NoWrap EXCEPT !.author = GeneratePrivateKey(n), !.recipient = pubkey])

\* The loop of publishKeyShares from target i up to its next await
KeySharesStep(c) ==
  IF c.i > Len(c.addresses) THEN Resolved(c)
  ELSE IF ~HasAdminKey(c.address) THEN Rejected(c)
  ELSE [c EXCEPT !.pc = "wrapping",
          !.keys = @ + 1,
          !.pending = KeyShareEnvelope(c.template, AdminKeyFor(c.address).privkey,
                                       c.addresses[c.i], c.keys + 1)]

ThirtyDays == 2592000     \* seconds(30, "day")

\* The loop of publishToGroupAdmin from pubkey i up to its next await; the
\* frame's addresses are [Address.from(address).pubkey, session.get().pubkey]
GroupAdminStep(c) ==
  IF c.i > Len(c.addresses) THEN Resolved(c)
  ELSE [c EXCEPT !.pc = "wrapping",
          !.keys = @ + 1,
          !.pending = wrapWithFallback(c.template, "",
             [NoWrap EXCEPT !.tags = << <<"expiration", ToString(now + ThirtyDays)>> >>,
                            !.author = GeneratePrivateKey(c.keys + 1),
                            !.recipient = c.addresses[c.i]])]

IsPrivate(address) == StartsWith(address, PrivatePrefix)

RECURSIVE Filter(_, _)
\* the two halves of partition(address => address.startsWith("35834:"), addresses)
Filter(addresses, wanted) ==
  IF addresses = <<>> THEN <<>>
  ELSE IF IsPrivate(Head(addresses)) = wanted
    THEN <<Head(addresses)>> \o Filter(Tail(addresses), wanted)
    ELSE Filter(Tail(addresses), wanted)

Idle == call = NoOp

publishToGroupsPublicly(addresses, anonymous) ==
  /\ Idle
  /\ call' = PubliclyStart(Frame("publishToGroupsPublicly", "public", addresses, "",
                                 NoteTemplate, anonymous))
  /\ UNCHANGED <<nip44Enabled, adminKeys, sharedKeys, access>>

publishToGroupsPrivately(addresses, anonymous) ==
  /\ Idle
  /\ call' = PrivatelyStep(Frame("publishToGroupsPrivately", "private", addresses, "",
                                 NoteTemplate, anonymous))
  /\ UNCHANGED <<nip44Enabled, adminKeys, sharedKeys, access>>

publishToZeroOrMoreGroups(addresses, anonymous) ==
  LET wrap == Filter(addresses, TRUE)
      nowrap == Filter(addresses, FALSE)
      frame == Frame("publishToZeroOrMoreGroups", "private", wrap, "", NoteTemplate, anonymous)
  IN /\ Idle
     /\ call' =
          IF addresses = <<>>
            THEN [frame EXCEPT !.stage = "broadcast", !.pc = "signing", !.signs = 1,
                               !.pending = <<Sign(NoteTemplate, SignerOf(frame))>>]
          ELSE IF wrap # <<>>
            THEN PrivatelyStep([frame EXCEPT !.rest = nowrap])
            ELSE PubliclyStart([frame EXCEPT !.stage = "public", !.addresses = nowrap])
     /\ UNCHANGED <<nip44Enabled, adminKeys, sharedKeys, access>>

\* publishAdminKeyShares(address, pubkeys)
publishAdminKeyShares(address, pubkeys) ==
  /\ Idle
  /\ call' =
       IF ~HasAdminKey(address)
         THEN Rejected(Frame("publishAdminKeyShares", "keys", pubkeys, address,
                             NoTemplate, FALSE))
         ELSE KeySharesStep(Frame("publishAdminKeyShares", "keys", pubkeys, address,
                CreateEvent(24, << <<"a", address>>, <<"role", "admin">>,
                                   <<"privkey", AdminKeyFor(address).privkey>> >>),
                FALSE))
  /\ UNCHANGED <<nip44Enabled, adminKeys, sharedKeys, access>>

\* publishGroupInvites(address, pubkeys, gracePeriod = 0)
\* The body of publishGroupInvites up to its first await, run for caller op.
InvitesStart(op, address, pubkeys) ==
  IF ~HasAdminKey(address) \/ ~HasSharedKey(address)
    THEN Rejected(Frame(op, "keys", pubkeys, address, NoTemplate, FALSE))
    ELSE KeySharesStep(Frame(op, "keys",
           pubkeys \o <<AdminKeyFor(address).pubkey>>, address,
           CreateEvent(24, << <<"a", address>>, <<"role", "member">>,
                              <<"privkey", SharedKey(address).privkey>>,
                              <<"grace_period", "0">> >>),
           FALSE))

publishGroupInvites(address, pubkeys) ==
  /\ Idle
  /\ call' = InvitesStart("publishGroupInvites", address, pubkeys)
  /\ UNCHANGED <<nip44Enabled, adminKeys, sharedKeys, access>>

\* publishGroupEvictions(address, pubkeys)
publishGroupEvictions(address, pubkeys) ==
  /\ Idle
  /\ call' = KeySharesStep(Frame("publishGroupEvictions", "keys", pubkeys, address,
                                 CreateEvent(24, << <<"a", address>> >>), FALSE))
  /\ UNCHANGED <<nip44Enabled, adminKeys, sharedKeys, access>>

\* publishAsGroupAdminPrivately(address, template): reading the privkey of a
\* key that is not held throws.
publishAsGroupAdminPrivately(address) ==
  LET frame == Frame("publishAsGroupAdminPrivately", "admin", <<address>>, address,
                     NoteTemplate, FALSE)
  IN /\ Idle
     /\ call' =
          IF ~HasAdminKey(address) \/ ~HasSharedKey(address)
            THEN Rejected(frame)
            ELSE [frame EXCEPT !.pc = "wrapping",
                    !.pending = wrapWithFallback(NoteTemplate, AdminKeyFor(address).privkey,
                       [NoWrap EXCEPT !.author = SharedKey(address).privkey,
                                      !.recipient = SharedKey(address).pubkey])]
     /\ UNCHANGED <<nip44Enabled, adminKeys, sharedKeys, access>>

\* The awaited wrap or sign settles and the operation runs on to its next
\* await, its return or its throw.
Resume ==
  /\ call.pc \in {"wrapping", "signing"}
  /\ call' =
       LET c == [Published(call, call.pending) EXCEPT !.pending = <<>>, !.i = @ + 1]
       IN IF call.pc = "signing" THEN Resolved(c)
          ELSE IF call.stage = "keys" THEN KeySharesStep(c)
          ELSE IF call.stage = "admin" THEN Resolved(c)
          ELSE IF call.stage = "toAdmin" THEN GroupAdminStep(c)
          ELSE PrivatelyStep(c)
  /\ UNCHANGED <<nip44Enabled, adminKeys, sharedKeys, access>>

\* The caller takes the settled promise.
Return ==
  /\ call.pc \in {"resolved", "rejected"}
  /\ call' = NoOp
  /\ UNCHANGED <<nip44Enabled, adminKeys, sharedKeys, access>>

\* initGroup with a shared key generated for every kind.
initGroupAlwaysShared(kind, name) ==
  LET privkey == "sk" \o name
      pubkey == GetPublicKey(privkey)
      address == MakeAddress(kind, pubkey)
  IN /\ \A k \in adminKeys : k.pubkey # pubkey
     /\ sharedKeys' = sharedKeys \cup {SharedKeyFor(address)}
     /\ adminKeys' = adminKeys \cup {[group |-> address, pubkey |-> pubkey, privkey |-> privkey]}
     /\ UNCHANGED <<nip44Enabled, access, call>>

\* initGroup(kind, relays), with the key pair generatePrivateKey() yields
initGroup(kind, name) ==
  LET privkey == "sk" \o name
      pubkey == GetPublicKey(privkey)
      address == MakeAddress(kind, pubkey)
  IN /\ \A k \in adminKeys : k.pubkey # pubkey
     /\ sharedKeys' = IF kind = PrivateKind
                        THEN sharedKeys \cup {SharedKeyFor(address)}
                        ELSE sharedKeys
     /\ adminKeys' = adminKeys \cup {[group |-> address, pubkey |-> pubkey, privkey |-> privkey]}
     /\ UNCHANGED <<nip44Enabled, access, call>>

\* modifyGroupStatus(session, address, timestamp, updates): session.groups
\* after it
modifyGroupStatus(groups, address, timestamp, updates) ==
  [groups EXCEPT ![address] = updateRecord(@, timestamp, updates)]

\* setGroupStatus(pubkey, address, timestamp, updates): the groups of the
\* user's session after updateSession, which leaves an absent session alone
setGroupStatus(pubkey, address, timestamp, updates) ==
  IF pubkey = UserPubkey /\ pubkey \in DOMAIN sessions
    THEN modifyGroupStatus(access, address, timestamp, updates)
    ELSE access

\* A key share for a private group arrives: its shared key is stored and the
\* access status becomes Granted.
ReceiveKeyShare(address) ==
  /\ GroupAccess(address) # "Granted"
  /\ sharedKeys' = sharedKeys \cup {SharedKeyFor(address)}
  /\ access' = setGroupStatus(UserPubkey, address, now, << <<"access", "Granted">> >>)
  /\ UNCHANGED <<nip44Enabled, adminKeys, call>>

\* An eviction arrives: the access status goes back to None.
ReceiveEviction(address) ==
  /\ GroupAccess(address) = "Granted"
  /\ access' = setGroupStatus(UserPubkey, address, now, << <<"access", "None">> >>)
  /\ UNCHANGED <<nip44Enabled, adminKeys, sharedKeys, call>>

\* resetGroupAccess(address)
resetGroupAccess(address) ==
  /\ access' = setGroupStatus(currentPubkey, address, now, << <<"access", "None">> >>)
  /\ UNCHANGED <<nip44Enabled, adminKeys, sharedKeys, call>>

\* publishGroupEntryRequest(address): the admin branch starts
\* publishGroupInvites and the other one publishToGroupAdmin, neither awaited
publishGroupEntryRequest(address) ==
  /\ Idle
  /\ LoggedIn
  /\ IF HasAdminKey(address)
       THEN /\ call' = InvitesStart("publishGroupEntryRequest", address, <<currentPubkey>>)
            /\ UNCHANGED access
       ELSE /\ access' = setGroupStatus(currentPubkey, address, now,
                                        << <<"access", "Requested">> >>)
            /\ call' = GroupAdminStep(Frame("publishGroupEntryRequest", "toAdmin",
                                            <<AddressPubkey(address), currentPubkey>>, address,
                                            CreateEvent(25, << <<"a", address>> >>), FALSE))
  /\ UNCHANGED <<nip44Enabled, adminKeys, sharedKeys>>

\* publishGroupExitRequest(address)
publishGroupExitRequest(address) ==
  /\ Idle
  /\ LoggedIn
  /\ access' = setGroupStatus(currentPubkey, address, now, << <<"access", "None">> >>)
  /\ call' = IF HasAdminKey(address)
               THEN call
               ELSE GroupAdminStep(Frame("publishGroupExitRequest", "toAdmin",
                                         <<AddressPubkey(address), currentPubkey>>, address,
                                         CreateEvent(26, << <<"a", address>> >>), FALSE))
  /\ UNCHANGED <<nip44Enabled, adminKeys, sharedKeys>>

\* The signer gains or loses the nip44 capability.
SetNip44(enabled) ==
  /\ nip44Enabled # enabled
  /\ nip44Enabled' = enabled
  /\ UNCHANGED <<adminKeys, sharedKeys, access, call>>

----------------------------------------------------------------------------
(* Sessions *)

SessionKeys == {UserPubkey, "pkAlice", "pkBob"}
Methods == {"privkey", "pubkey", "extension"}

\* A session, as the login commands build it: stored under its own pubkey.
Session(key, method) == [pubkey |-> key, method |-> method]

\* session.groups of a session that was just built
NoGroups == [a \in GroupAddresses |-> EmptyRecord]

\* session.groups of the user's session once the session of key was replaced
\* or removed
GroupsWithout(key) == IF key = UserPubkey THEN NoGroups ELSE access

\* addSession(s)
addSession(s) ==
  /\ sessions' = Assoc(sessions, s.pubkey, s)
  /\ currentPubkey' = s.pubkey
  /\ threw' = FALSE
  /\ access' = GroupsWithout(s.pubkey)
  /\ UNCHANGED <<nip44Enabled, adminKeys, sharedKeys, call>>

\* logoutPubkey with the test of the current session left out.
logoutPubkeyAny(key) ==
  /\ sessions' = [k \in DOMAIN sessions \ {key} |-> sessions[k]]
  /\ threw' = FALSE
  /\ access' = GroupsWithout(key)
  /\ UNCHANGED <<currentPubkey, nip44Enabled, adminKeys, sharedKeys, call>>

\* logoutPubkey(pubkey): it throws for the current session's pubkey, and so
\* does the read of session.get().pubkey when there is no current session
logoutPubkey(key) ==
  IF ~LoggedIn \/ sessions[currentPubkey].pubkey = key
    THEN /\ threw' = TRUE
         /\ UNCHANGED <<sessions, currentPubkey, groupVars>>
    ELSE /\ sessions' = [k \in DOMAIN sessions \ {key} |-> sessions[k]]
         /\ threw' = FALSE
         /\ access' = GroupsWithout(key)
         /\ UNCHANGED <<currentPubkey, nip44Enabled, adminKeys, sharedKeys, call>>

\* logout()
logout ==
  /\ currentPubkey' = NoPubkey
  /\ sessions' = [k \in {} |-> Session("", "")]
  /\ threw' = FALSE
  /\ access' = NoGroups
  /\ UNCHANGED <<nip44Enabled, adminKeys, sharedKeys, call>>

\* setSession with the data stored under any key.
setSessionAnyKey(k, data) ==
  /\ sessions' = Assoc(sessions, k, data)
  /\ threw' = FALSE
  /\ access' = GroupsWithout(k)
  /\ UNCHANGED <<currentPubkey, nip44Enabled, adminKeys, sharedKeys, call>>

\* setSession(k, data)
setSession(k, data) ==
  /\ sessions' = IF k \in DOMAIN sessions THEN [sessions EXCEPT ![k] = data] ELSE sessions
  /\ threw' = FALSE
  /\ access' = IF k \in DOMAIN sessions THEN GroupsWithout(k) ELSE access
  /\ UNCHANGED <<currentPubkey, nip44Enabled, adminKeys, sharedKeys, call>>

\* setCurrentSession(data)
setCurrentSession(data) ==
  IF currentPubkey # NoPubkey
    THEN setSession(currentPubkey, data)
    ELSE threw' = FALSE /\ UNCHANGED <<sessions, currentPubkey, groupVars>>

\* updateSession(k, f), with f = s => ({...s, method})
updateSession(k, method) ==
  /\ sessions' = IF k \in DOMAIN sessions
                   THEN [sessions EXCEPT ![k] = [@ EXCEPT !.method = method]]
                   ELSE sessions
  /\ threw' = FALSE
  /\ UNCHANGED <<currentPubkey, groupVars>>

\* updateCurrentSession(f)
updateCurrentSession(method) ==
  IF currentPubkey # NoPubkey
    THEN updateSession(currentPubkey, method)
    ELSE threw' = FALSE /\ UNCHANGED <<sessions, currentPubkey, groupVars>>

----------------------------------------------------------------------------
(* File upload: uploadFileToHost *)

UploadTimeout == 60      \* seconds: now() - startTime > 60
PollSleep == 3           \* seconds: sleep(3000)

\* The latest instant at which an upload is started.
MaxUploadStart == 3
\* The longest time, from its start, over which an upload is followed.
MaxElapsed == 70

\* pc: the await the call is suspended at ("provider", "post", "poll",
\* "sleep"), "done" once it returned and "rejected" once it threw;
\* result: "initial" for response.nip94_event, "polled" for the nip94_event
\* of a poll
NoUpload == [pc |-> "", startTime |-> 0, polls |-> 0, processing |-> FALSE, result |-> ""]

\* The deadline test with the limit taken ten times too long.
TimedOutLate(c) == now - c.startTime > 10 * UploadTimeout

\* now() - startTime > 60
TimedOut(c) == now - c.startTime > UploadTimeout

\* uploadFileToHost(url, file) up to its await of getMediaProviderURL
uploadFileToHost ==
  /\ upload = NoUpload
  /\ now <= MaxUploadStart
  /\ upload' = [NoUpload EXCEPT !.pc = "provider", !.startTime = now]
  /\ UNCHANGED now

\* getMediaProviderURL settles: the POST is sent and awaited
UploadProviderSettles ==
  /\ upload.pc = "provider"
  /\ upload' = [upload EXCEPT !.pc = "post"]
  /\ UNCHANGED now

\* The POST settles with a response that has a processing_url or not: the
\* loop is entered up to its await of the first poll, or the call returns.
UploadPostSettles(processing) ==
  /\ upload.pc = "post"
  /\ upload' = IF processing
                 THEN [upload EXCEPT !.pc = "poll", !.processing = TRUE]
                 ELSE [upload EXCEPT !.pc = "done", !.result = "initial"]
  /\ UNCHANGED now

\* A poll settles with its status: return on success, break on the deadline,
\* or sleep.
UploadPollSettles(status) ==
  /\ upload.pc = "poll"
  /\ upload' =
       LET c == [upload EXCEPT !.polls = @ + 1]
       IN IF status = "success" THEN [c EXCEPT !.pc = "done", !.result = "polled"]
          ELSE IF TimedOut(c) THEN [c EXCEPT !.pc = "done", !.result = "initial"]
          ELSE [c EXCEPT !.pc = "sleep"]
  /\ UNCHANGED now

\* sleep(3000) settles, no sooner than three seconds later, and the next
\* poll is sent and awaited.
UploadSleepSettles(seconds) ==
  /\ upload.pc = "sleep"
  /\ now' = now + seconds
  /\ upload' = [upload EXCEPT !.pc = "poll"]

\* An awaited request fails: the call throws.
UploadFetchFails ==
  /\ upload.pc \in {"provider", "post", "poll"}
  /\ upload' = [upload EXCEPT !.pc = "rejected"]
  /\ UNCHANGED now

\* Time passes while a request is pending.
UploadElapse(seconds) ==
  /\ upload.pc \in {"provider", "post", "poll"}
  /\ now + seconds - upload.startTime <= MaxElapsed
  /\ now' = now + seconds
  /\ UNCHANGED upload

\* The caller takes the settled promise.
UploadReturn ==
  /\ upload.pc \in {"done", "rejected"}
  /\ upload' = NoUpload
  /\ UNCHANGED now

\* Some awaited promise of the upload settles.
UploadSettles ==
  \/ UploadProviderSettles
  \/ \E processing \in BOOLEAN : UploadPostSettles(processing)
  \/ \E status \in {"success", "processing"} : UploadPollSettles(status)
  \/ \E seconds \in {PollSleep, PollSleep + 1} : UploadSleepSettles(seconds)

----------------------------------------------------------------------------
(* Feed scroller: createScroller *)

\* The fill loops followed at a time.
MaxLoops == 2

\* cursor.delta when the scroller is created, in seconds
StartingDelta == 648000

\* A fill loop is held with the await it is suspended at: pc is "chunk"
\* (await cursor.chunk()), "onChunk" (await onChunk(chunk)) or "sleep"
\* (await sleep(300)).

\* The loops but the i-th, which has exited.
Without(ls, i) == SubSeq(ls, 1, i - 1) \o SubSeq(ls, i + 1, Len(ls))

\* The end of an iteration: the loop exits when the flag is down and sleeps
\* otherwise.
IterationEnd(i) ==
  IF ~active
    THEN loops' = Without(loops, i) /\ active' = FALSE
    ELSE loops' = [loops EXCEPT ![i] = [pc |-> "sleep"]] /\ UNCHANGED active

\* start(): the call only arms the debounce timer
start ==
  /\ debounced' = TRUE
  /\ stopped' = FALSE
  /\ UNCHANGED <<active, loops, cursorDelta>>

\* The debounce timer fires and the function runs up to its first await, or
\* to its end; more tells whether the two tests at the top of the loop let
\* the loop go on.
StartFires(more) ==
  /\ debounced
  /\ debounced' = FALSE
  /\ IF active
       THEN UNCHANGED <<active, loops>>
       ELSE IF more
         THEN /\ Len(loops) < MaxLoops
              /\ active' = TRUE
              /\ loops' = Append(loops, [pc |-> "chunk"])
         ELSE /\ active' = FALSE
              /\ UNCHANGED loops
  /\ UNCHANGED <<stopped, cursorDelta>>

\* cursor.chunk() settles for loop i with an empty chunk or not.
ChunkSettles(i, empty) ==
  /\ i \in 1..Len(loops)
  /\ loops[i].pc = "chunk"
  /\ IF empty
       THEN /\ cursorDelta' = IF cursorDelta * 2 < ThirtyDays THEN cursorDelta * 2
                                                             ELSE ThirtyDays
            /\ IterationEnd(i)
       ELSE /\ loops' = [loops EXCEPT ![i] = [pc |-> "onChunk"]]
            /\ UNCHANGED <<active, cursorDelta>>
  /\ UNCHANGED <<debounced, stopped>>

\* onChunk(chunk) settles for loop i.
OnChunkSettles(i) ==
  /\ i \in 1..Len(loops)
  /\ loops[i].pc = "onChunk"
  /\ cursorDelta' = StartingDelta
  /\ IterationEnd(i)
  /\ UNCHANGED <<debounced, stopped>>

\* sleep(300) settles for loop i, which goes to the top of the loop.
SleepSettles(i, more) ==
  /\ i \in 1..Len(loops)
  /\ loops[i].pc = "sleep"
  /\ IF more
       THEN loops' = [loops EXCEPT ![i] = [pc |-> "chunk"]] /\ UNCHANGED active
       ELSE loops' = Without(loops, i) /\ active' = FALSE
  /\ UNCHANGED <<debounced, stopped, cursorDelta>>

\* stop()
stop ==
  /\ active' = FALSE
  /\ stopped' = TRUE
  /\ UNCHANGED <<debounced, loops, cursorDelta>>

----------------------------------------------------------------------------
(* Read receipts: markAsSeen *)

SeenThreshold == 100
ChunkSize == 500
NinetyDays == 7776000     \* seconds(90, "day")

\* The numbers of events a caller hands to markAsSeen.
EventCounts ==
  {0, 50, 99, 100, 101, 150}
    \cup { ChunkSize * k : k \in 1..MaxChunks } \cup { ChunkSize * k + 1 : k \in 1..MaxChunks }

\* pluck("id", events) of count events whose ids start at first
EventIds(first, count) == [i \in 1..count |-> first + i - 1]

\* unpublishedReadReceipts: the ids marked as seen that no published receipt
\* holds, which are those of the optimistic list
unpublishedReadReceipts == optimisticReadReceipts

RECURSIVE Chunk(_, _)
\* chunk(n, xs) of hurdak: xs cut into consecutive pieces of n entries, the
\* last one holding the rest
Chunk(n, xs) ==
  IF xs = <<>> THEN <<>>
  ELSE IF Len(xs) <= n THEN <<xs>>
  ELSE <<SubSeq(xs, 1, n)>> \o Chunk(n, SubSeq(xs, n + 1, Len(xs)))

\* ids.map(id => ["e", id])
ETags(ids) == [i \in 1..Len(ids) |-> <<"e", ids[i]>>]

\* The expiration tag with the 30 days of publishToGroupAdmin.
ExpirationTagThirtyDays(at) == <<"expiration", ToString(at + 2592000)>>

\* ["expiration", String(now() + seconds(90, "day"))]
ExpirationTag(at) == <<"expiration", ToString(at + NinetyDays)>>

NoSeen == [pc |-> "", allIds |-> <<>>, calledAt |-> 0, durable |-> FALSE,
           chunks |-> <<>>, keys |-> 0, pending |-> <<>>, pubs |-> <<>>]

\* allIds.length > 100
TakesDurablePath(allIds) == Len(allIds) > SeenThreshold

\* The loop of markAsSeen over the chunks left, up to its next await
SeenStep(c) ==
  IF c.chunks = <<>> THEN [c EXCEPT !.pc = "resolved"]
  ELSE LET template == CreateEvent(15, <<ExpirationTag(c.calledAt)>> \o ETags(Head(c.chunks)))
       IN IF nip44Enabled
            THEN [c EXCEPT !.pc = "wrapping", !.chunks = Tail(@), !.keys = @ + 1,
                    !.pending = <<Nip59Wrap(template, "",
                       [NoWrap EXCEPT !.author = GeneratePrivateKey(c.keys + 1),
                                      !.recipient = UserPubkey,
                                      !.tags = <<ExpirationTag(c.calledAt)>>])>>]
            ELSE [c EXCEPT !.pc = "signing", !.chunks = Tail(@),
                    !.pending = <<Sign(template, "user")>>]

\* markAsSeen(events)
markAsSeen(events) ==
  LET allIds == unpublishedReadReceipts \o events
      frame == [NoSeen EXCEPT !.pc = "resolved", !.calledAt = now]
  IN /\ seenCall = NoSeen
     /\ IF ~signerEnabled \/ Len(events) = 0
          THEN /\ seenCall' = frame
               /\ UNCHANGED optimisticReadReceipts
          ELSE IF TakesDurablePath(allIds)
            THEN /\ optimisticReadReceipts' = <<>>
                 /\ seenCall' = SeenStep([frame EXCEPT !.allIds = allIds, !.durable = TRUE,
                                                       !.chunks = Chunk(ChunkSize, allIds)])
            ELSE /\ optimisticReadReceipts' = allIds
                 /\ seenCall' = [frame EXCEPT !.allIds = allIds]
     /\ UNCHANGED signerEnabled

\* The awaited wrap or signature settles: the event is published and the
\* loop goes on.
SeenResume ==
  /\ seenCall.pc \in {"wrapping", "signing"}
  /\ seenCall' = SeenStep([seenCall EXCEPT !.pubs = @ \o seenCall.pending, !.pending = <<>>])
  /\ UNCHANGED <<signerEnabled, optimisticReadReceipts>>

\* The caller takes the settled promise.
SeenReturn ==
  /\ seenCall.pc = "resolved"
  /\ seenCall' = NoSeen
  /\ UNCHANGED <<signerEnabled, optimisticReadReceipts>>

\* The signer is attached or detached.
SetSigner(enabled) ==
  /\ signerEnabled # enabled
  /\ signerEnabled' = enabled
  /\ UNCHANGED <<optimisticReadReceipts, seenCall>>

----------------------------------------------------------------------------

Init ==
  /\ now = 0
  /\ sessions = [k \in {UserPubkey} |-> Session(UserPubkey, "privkey")]
  /\ currentPubkey = UserPubkey
  /\ threw = FALSE
  /\ upload = NoUpload
  /\ debounced = FALSE
  /\ active = FALSE
  /\ stopped = FALSE
  /\ loops = <<>>
  /\ cursorDelta = StartingDelta
  /\ freshness = [k \in Namespaces |-> [p \in Pubkeys |-> 0]]
  /\ attempts = [p \in Pubkeys |-> 0]
  /\ staleCall = NoCall
  /\ loads = [k \in Namespaces |-> [p \in Pubkeys |-> -1]]
  /\ thenCall = NoThen
  /\ handles = [p \in {} |-> ""]
  /\ lookups = {}
  /\ zappers = {}
  /\ nip44Enabled = FALSE
  /\ adminKeys = {}
  /\ sharedKeys = {}
  /\ access = NoGroups
  /\ call = NoOp
  /\ signerEnabled = TRUE
  /\ optimisticReadReceipts = <<>>
  /\ seenCall = NoSeen
  /\ record = EmptyRecord
  /\ lastUpdate = NoUpdate
  /\ repeats = 0
  /\ batch = <<>>
  /\ mergeAsc = EmptyRecord
  /\ mergeDesc = EmptyRecord

NextRecord ==
  \/ \E t \in Timestamps, u \in UpdateObjects : UpdateStore(t, u)
  \/ \E b \in Batches : MergeBatch(b)

SpecRecord == Init /\ [][NextRecord]_vars

NextLoader ==
  \/ \E l \in PubkeyLists, f \in BOOLEAN :
       LoadPubkeyData(ProfileKey, l, f) /\ UNCHANGED <<recordVars, groupVars, seenVars, sessionVars, uiVars>>
  \/ LoadReturn /\ UNCHANGED <<recordVars, groupVars, seenVars, sessionVars, uiVars>>
  \/ \E p \in Pubkeys : OnEvent(ProfileKey, p) /\ UNCHANGED <<recordVars, groupVars, seenVars, sessionVars, uiVars>>
  \/ \E t \in Instants : Tick(t) /\ UNCHANGED <<recordVars, groupVars, seenVars, sessionVars, uiVars>>

SpecLoader == Init /\ [][NextLoader]_vars

\* The lists loadPubkeys is driven with: one author, well-formed or not.
AuthorLists == {<<>>, <<HexKey>>, <<ShortKey>>}

NextPubkeys ==
  \/ \E l \in AuthorLists, f \in BOOLEAN :
       LoadPubkeys(l, f) /\ UNCHANGED <<recordVars, groupVars, seenVars, sessionVars, uiVars>>
  \/ LoadProfilesConcurrent /\ UNCHANGED <<recordVars, groupVars, seenVars, sessionVars, uiVars>>
  \/ LoadProfilesThen /\ UNCHANGED <<recordVars, groupVars, seenVars, sessionVars, uiVars>>
  \/ \E l \in AuthorLists :
       LoadPubkeyData(ProfileKey, l, FALSE) /\ UNCHANGED <<recordVars, groupVars, seenVars, sessionVars, uiVars>>
  \/ LoadReturn /\ UNCHANGED <<recordVars, groupVars, seenVars, sessionVars, uiVars>>
  \/ \E k \in {ProfileKey, RelayKey}, p \in Pubkeys :
       OnEvent(k, p) /\ UNCHANGED <<recordVars, groupVars, seenVars, sessionVars, uiVars>>
  \/ \E t \in Instants : Tick(t) /\ UNCHANGED <<recordVars, groupVars, seenVars, sessionVars, uiVars>>

SpecPubkeys == Init /\ [][NextPubkeys]_vars

NextFreshness ==
  \/ \E l \in AuthorLists, f \in BOOLEAN :
       LoadPubkeyData(ProfileKey, l, f) /\ UNCHANGED <<recordVars, groupVars, seenVars, sessionVars, uiVars>>
  \/ LoadReturn /\ UNCHANGED <<recordVars, groupVars, seenVars, sessionVars, uiVars>>
  \/ \E p \in Pubkeys : OnEvent(ProfileKey, p) /\ UNCHANGED <<recordVars, groupVars, seenVars, sessionVars, uiVars>>
  \/ \E t \in Instants : Tick(t) /\ UNCHANGED <<recordVars, groupVars, seenVars, sessionVars, uiVars>>
  \/ \E c \in CreatedAts, n \in {"", "alice@a"} :
       updateHandle(HexKey, c, n) /\ UNCHANGED <<recordVars, groupVars, seenVars, sessionVars, uiVars>>
  \/ \E l \in lookups :
       LoadHandleSettles(l, TRUE) /\ UNCHANGED <<recordVars, groupVars, seenVars, sessionVars, uiVars>>
  \/ \E c \in CreatedAts, a \in ZapAddresses, v \in BOOLEAN :
       updateZapper(HexKey, c, a, v) /\ UNCHANGED <<recordVars, groupVars, seenVars, sessionVars, uiVars>>

SpecFreshness == Init /\ [][NextFreshness]_vars

NextHandles ==
  \/ \E p \in {HexKey, LetterKey}, c \in CreatedAts, n \in Nip05s :
       updateHandle(p, c, n) /\ UNCHANGED <<recordVars, groupVars, seenVars, sessionVars, uiVars>>
  \/ \E l \in lookups, v \in BOOLEAN :
       LoadHandleSettles(l, v) /\ UNCHANGED <<recordVars, groupVars, seenVars, sessionVars, uiVars>>

SpecHandles == Init /\ [][NextHandles]_vars

NextGroups ==
  \/ \E l \in AddressLists, an \in BOOLEAN :
       \/ publishToGroupsPublicly(l, an) /\ UNCHANGED <<recordVars, loaderVars, seenVars, sessionVars, uiVars>>
       \/ publishToGroupsPrivately(l, an) /\ UNCHANGED <<recordVars, loaderVars, seenVars, sessionVars, uiVars>>
       \/ publishToZeroOrMoreGroups(l, an) /\ UNCHANGED <<recordVars, loaderVars, seenVars, sessionVars, uiVars>>
  \/ \E a \in GroupAddresses, t \in TargetLists :
       \/ publishAdminKeyShares(a, t) /\ UNCHANGED <<recordVars, loaderVars, seenVars, sessionVars, uiVars>>
       \/ publishGroupInvites(a, t) /\ UNCHANGED <<recordVars, loaderVars, seenVars, sessionVars, uiVars>>
       \/ publishGroupEvictions(a, t) /\ UNCHANGED <<recordVars, loaderVars, seenVars, sessionVars, uiVars>>
  \/ \E a \in GroupAddresses :
       publishAsGroupAdminPrivately(a) /\ UNCHANGED <<recordVars, loaderVars, seenVars, sessionVars, uiVars>>
  \/ Resume /\ UNCHANGED <<recordVars, loaderVars, seenVars, sessionVars, uiVars>>
  \/ Return /\ UNCHANGED <<recordVars, loaderVars, seenVars, sessionVars, uiVars>>
  \/ \E k \in {PrivateKind, PublicKind}, n \in LocalKeyNames :
       initGroup(k, n) /\ UNCHANGED <<recordVars, loaderVars, seenVars, sessionVars, uiVars>>
  \/ \E a \in PrivateAddresses : ReceiveKeyShare(a) /\ UNCHANGED <<recordVars, loaderVars, seenVars, sessionVars, uiVars>>
  \/ \E a \in PrivateAddresses : ReceiveEviction(a) /\ UNCHANGED <<recordVars, loaderVars, seenVars, sessionVars, uiVars>>
  \/ \E b \in BOOLEAN : SetNip44(b) /\ UNCHANGED <<recordVars, loaderVars, seenVars, sessionVars, uiVars>>

SpecGroups == Init /\ [][NextGroups]_vars

NextAccess ==
  \/ \E a \in GroupAddresses :
       \/ publishGroupEntryRequest(a) /\ UNCHANGED <<recordVars, loaderVars, seenVars, sessionVars, uiVars>>
       \/ publishGroupExitRequest(a) /\ UNCHANGED <<recordVars, loaderVars, seenVars, sessionVars, uiVars>>
       \/ resetGroupAccess(a) /\ UNCHANGED <<recordVars, loaderVars, seenVars, sessionVars, uiVars>>
  \/ Resume /\ UNCHANGED <<recordVars, loaderVars, seenVars, sessionVars, uiVars>>
  \/ Return /\ UNCHANGED <<recordVars, loaderVars, seenVars, sessionVars, uiVars>>
  \/ \E k \in {PrivateKind, PublicKind}, n \in LocalKeyNames :
       initGroup(k, n) /\ UNCHANGED <<recordVars, loaderVars, seenVars, sessionVars, uiVars>>
  \/ \E a \in PrivateAddresses : ReceiveKeyShare(a) /\ UNCHANGED <<recordVars, loaderVars, seenVars, sessionVars, uiVars>>
  \/ \E t \in {5} : Tick(t) /\ UNCHANGED <<recordVars, groupVars, seenVars, sessionVars, uiVars>>

SpecAccess == Init /\ [][NextAccess]_vars

NextSession ==
  \/ \E k \in SessionKeys, m \in Methods :
       \/ addSession(Session(k, m)) /\ UNCHANGED <<recordVars, loaderVars, seenVars, uiVars>>
       \/ setSession(k, Session(k, m)) /\ UNCHANGED <<recordVars, loaderVars, seenVars, uiVars>>
       \/ updateSession(k, m) /\ UNCHANGED <<recordVars, loaderVars, seenVars, uiVars>>
  \/ \E m \in Methods :
       \/ setCurrentSession(Session(currentPubkey, m)) /\ UNCHANGED <<recordVars, loaderVars, seenVars, uiVars>>
       \/ updateCurrentSession(m) /\ UNCHANGED <<recordVars, loaderVars, seenVars, uiVars>>
  \/ \E k \in SessionKeys : logoutPubkey(k) /\ UNCHANGED <<recordVars, loaderVars, seenVars, uiVars>>
  \/ logout /\ UNCHANGED <<recordVars, loaderVars, seenVars, uiVars>>

SpecSession == Init /\ [][NextSession]_vars

NextScroller ==
  \/ start /\ UNCHANGED <<recordVars, loaderVars, groupVars, seenVars, sessionVars, uploadVars>>
  \/ \E more \in BOOLEAN :
       StartFires(more) /\ UNCHANGED <<recordVars, loaderVars, groupVars, seenVars, sessionVars, uploadVars>>
  \/ \E i \in 1..MaxLoops, empty \in BOOLEAN :
       ChunkSettles(i, empty) /\ UNCHANGED <<recordVars, loaderVars, groupVars, seenVars, sessionVars, uploadVars>>
  \/ \E i \in 1..MaxLoops :
       OnChunkSettles(i) /\ UNCHANGED <<recordVars, loaderVars, groupVars, seenVars, sessionVars, uploadVars>>
  \/ \E i \in 1..MaxLoops, more \in BOOLEAN :
       SleepSettles(i, more) /\ UNCHANGED <<recordVars, loaderVars, groupVars, seenVars, sessionVars, uploadVars>>
  \/ stop /\ UNCHANGED <<recordVars, loaderVars, groupVars, seenVars, sessionVars, uploadVars>>

SpecScroller == Init /\ [][NextScroller]_vars

\* What the upload leaves alone: everything but its frame and the clock.
uploadRest ==
  <<recordVars, freshness, attempts, staleCall, loads, thenCall, handles, zappers, lookups,
    groupVars, seenVars, sessionVars, scrollVars>>

NextUpload ==
  \/ uploadFileToHost /\ UNCHANGED uploadRest
  \/ UploadProviderSettles /\ UNCHANGED uploadRest
  \/ \E processing \in BOOLEAN : UploadPostSettles(processing) /\ UNCHANGED uploadRest
  \/ \E status \in {"success", "processing"} : UploadPollSettles(status) /\ UNCHANGED uploadRest
  \/ \E seconds \in {PollSleep, PollSleep + 1} : UploadSleepSettles(seconds) /\ UNCHANGED uploadRest
  \/ UploadFetchFails /\ UNCHANGED uploadRest
  \/ \E seconds \in {1, 20} : UploadElapse(seconds) /\ UNCHANGED uploadRest
  \/ UploadReturn /\ UNCHANGED uploadRest

\* Every awaited promise settles: the requests are answered or fail, and
\* the timer of sleep fires.
SpecUpload == Init /\ [][NextUpload]_vars /\ WF_vars(UploadSettles /\ UNCHANGED uploadRest)

\* The first ids of the events handed to markAsSeen.
FirstIds == {1, 2001}

\* The instants at which markAsSeen calls are made.
SeenInstants == {5, 300}

NextSeen ==
  \/ \E f \in FirstIds, n \in EventCounts :
       markAsSeen(EventIds(f, n)) /\ UNCHANGED <<recordVars, loaderVars, groupVars, sessionVars, uiVars>>
  \/ SeenResume /\ UNCHANGED <<recordVars, loaderVars, groupVars, sessionVars, uiVars>>
  \/ SeenReturn /\ UNCHANGED <<recordVars, loaderVars, groupVars, sessionVars, uiVars>>
  \/ \E b \in BOOLEAN : SetSigner(b) /\ UNCHANGED <<recordVars, loaderVars, groupVars, sessionVars, uiVars>>
  \/ \E b \in BOOLEAN : SetNip44(b) /\ UNCHANGED <<recordVars, loaderVars, seenVars, sessionVars, uiVars>>
  \/ \E t \in SeenInstants : Tick(t) /\ UNCHANGED <<recordVars, groupVars, seenVars, sessionVars, uiVars>>

SpecSeen == Init /\ [][NextSeen]_vars

----------------------------------------------------------------------------
(* Claims about the record merge *)

Stamped(rec, field) == TsField(field) \in DOMAIN rec

SameField(r1, r2, field) ==
  /\ (field \in DOMAIN r1) = (field \in DOMAIN r2)
  /\ (field \in DOMAIN r1 => r1[field] = r2[field])
  /\ Stamped(r1, field) = Stamped(r2, field)
  /\ (Stamped(r1, field) => r1[TsField(field)] = r2[TsField(field)])

UpdatedFields(updates) == { updates[i][1] : i \in 1..Len(updates) }

FieldOutcome(f, v, t) ==
  IF ~Stamped(record, f) \/ t > record[TsField(f)]
    THEN /\ f \in DOMAIN record' /\ record'[f] = v
         /\ Stamped(record', f) /\ record'[TsField(f)] = t
    ELSE SameField(record, record', f)

\* C5: a field is replaced exactly when the incoming timestamp is strictly
\* greater than its stored stamp (absent counts as lower than any timestamp);
\* otherwise the field, its stamp and every other field stay as they were.
C5_StrictlyGreaterOnly ==
  [][lastUpdate' # NoUpdate =>
       LET t == lastUpdate'.timestamp
           u == lastUpdate'.updates
       IN /\ \A i \in 1..Len(u) : FieldOutcome(u[i][1], u[i][2], t)
          /\ \A g \in Fields \ UpdatedFields(u) : SameField(record, record', g)]_vars

DistinctTimestamps(pairs) ==
  \A i, j \in 1..Len(pairs) : i # j => pairs[i].timestamp # pairs[j].timestamp

\* C6 (as stated): merging any list of pairs in ascending timestamp order and
\* in the reverse order gives the same record.
C6_OrderInvariantAnyBatch == mergeAsc = mergeDesc

\* C6 (amended): merging pairs whose timestamps are pairwise distinct in
\* ascending order and in the reverse order gives the same record.
C6_OrderInvariantDistinct == DistinctTimestamps(batch) => mergeAsc = mergeDesc

C6_Witness ==
  /\ Len(batch) = 2
  /\ DistinctTimestamps(batch)
  /\ batch[1].updates[1][1] = batch[2].updates[1][1]
  /\ batch[1].updates[1][2] # batch[2].updates[1][2]
  /\ record # EmptyRecord
  /\ mergeAsc # record
  /\ mergeAsc = mergeDesc

\* C7: applying the same (timestamp, updates) a second time leaves the record
\* as the first application left it.
C7_Idempotent ==
  [][(lastUpdate # NoUpdate /\ lastUpdate' = lastUpdate) => record' = record]_vars

C7_Witness ==
  /\ repeats = 2
  /\ \E i \in 1..Len(lastUpdate.updates) :
        LET f == lastUpdate.updates[i][1]
        IN /\ Stamped(record, f)
           /\ record[TsField(f)] = lastUpdate.timestamp
           /\ record[f] = lastUpdate.updates[i][2]
  /\ \E g \in Fields : Stamped(record, g) /\ record[TsField(g)] # lastUpdate.timestamp

RecordStamps(rec) == { rec[TsField(f)] : f \in { g \in Fields : Stamped(rec, g) } }

SetMax(S) == CHOOSE m \in S : \A n \in S : n <= m

UpdatedAtIsMax ==
  IF RecordStamps(record) = {}
    THEN "updated_at" \notin DOMAIN record
    ELSE "updated_at" \in DOMAIN record /\ record["updated_at"] = SetMax(RecordStamps(record))

\* C8: starting from an empty record, updated_at is the maximum of the field
\* stamps after every call, and no call lowers it.
C8_UpdatedAtMaxMonotone ==
  /\ []UpdatedAtIsMax
  /\ [][OrDefault(record', "updated_at", 0) >= OrDefault(record, "updated_at", 0)]_vars

C8_Witness ==
  /\ Stamped(record, "a") /\ Stamped(record, "b")
  /\ record[TsField("a")] > record[TsField("b")]
  /\ lastUpdate # NoUpdate
  /\ lastUpdate.timestamp = record[TsField("b")]
  /\ record["updated_at"] = record[TsField("a")]

----------------------------------------------------------------------------
(* Claims about the freshness-gated loader *)

IsLowerHexChar(c) ==
  \/ CharCode(c) >= CharCode("0") /\ CharCode(c) <= CharCode("9")
  \/ CharCode(c) >= CharCode("a") /\ CharCode(c) <= CharCode("f")

\* Exactly 64 lowercase hexadecimal characters.
WellFormedPubkeys ==
  { p \in Pubkeys : Len(p) = 64 /\ \A i \in 1..Len(p) : IsLowerHexChar(CharAt(p, i)) }

\* C9: no identifier that is not 64 lowercase hexadecimal characters is ever
\* in the result of getStalePubkeys, forced or not.
C9_OnlyLowercaseHexSelected ==
  \A i \in 1..Len(staleCall.result) : staleCall.result[i] \in WellFormedPubkeys

Listed(sc) == { sc.pubkeys[i] : i \in 1..Len(sc.pubkeys) }

Selected(sc) == { sc.result[i] : i \in 1..Len(sc.result) }

CallStep == staleCall = NoCall /\ staleCall' # NoCall

\* C10 (as stated): a well-formed pubkey of the list is selected exactly when
\* now - freshness >= delta * (1 + attempts), with the attempts held before
\* the call.
C10_SelectedIffGapAtLeast ==
  [][CallStep =>
       \A p \in Listed(staleCall') \cap WellFormedPubkeys :
         (p \in Selected(staleCall')) <=>
           (now - freshness[staleCall'.key][p] >= staleCall'.delta * (1 + attempts[p]))]_vars

\* C10 (amended): a well-formed pubkey of the list is selected exactly when
\* now - freshness > delta * (1 + attempts), with the attempts held before
\* the call.
C10_SelectedIffGapExceeds ==
  [][CallStep =>
       \A p \in Listed(staleCall') \cap WellFormedPubkeys :
         (p \in Selected(staleCall')) <=>
           (now - freshness[staleCall'.key][p] > staleCall'.delta * (1 + attempts[p]))]_vars

\* The fourth selection of a pubkey under delta 300, after three earlier
\* ones: the gap is 1201.
C10_Witness ==
  /\ staleCall # NoCall
  /\ staleCall.pubkeys = <<HexKey>>
  /\ staleCall.delta = StaleDelta
  /\ HexKey \in Selected(staleCall)
  /\ attempts[HexKey] = 4
  /\ now - freshness[staleCall.key][HexKey] = 1201

\* C11: with force = true every well-formed pubkey of the list is selected,
\* whatever its freshness and its attempts: only malformed ones are left out.
C11_ForceSelectsEveryWellFormed ==
  staleCall.force =>
    (Listed(staleCall) \cap WellFormedPubkeys) \subseteq Selected(staleCall)

\* C12: a pubkey selected under a namespace is not selected again by a
\* non-forced call for that namespace made less than StaleDelta seconds after
\* the request, whether or not an event arrived in between; and the two
\* loadPubkeyProfiles calls of one loadPubkeys call select no pubkey twice.
C12_SelectedIsBackedOff ==
  [][/\ (CallStep /\ ~staleCall'.force) =>
          \A p \in Selected(staleCall') :
            \/ loads[staleCall'.key][p] < 0
            \/ now - loads[staleCall'.key][p] >= StaleDelta
     /\ (thenCall.stage = "then" /\ thenCall'.stage = "none") =>
          Selected(staleCall') \cap Range(thenCall.fetched) = {}]_vars

C14_EmptySelectionNoEffects ==
  [][(CallStep /\ Len(staleCall'.result) = 0) =>
       /\ loads' = loads
       /\ freshness' = freshness
       /\ attempts' = attempts]_vars

\* A call listing a well-formed pubkey that was requested before and is
\* still fresh selects nothing.
C14_Witness ==
  /\ staleCall # NoCall
  /\ HexKey \in Listed(staleCall)
  /\ Len(staleCall.result) = 0
  /\ attempts[HexKey] = 1
  /\ freshness[staleCall.key][HexKey] > 0

\* C15: the attempts of a pubkey never go down, and one getStalePubkeys call
\* raises them by exactly one for each pubkey of its result, however often
\* the pubkey occurs in the list, and by nothing for every other pubkey.
C15_AttemptsRaisedOncePerSelected ==
  [][/\ \A p \in Pubkeys : attempts'[p] >= attempts[p]
     /\ CallStep =>
          \A p \in Pubkeys :
            attempts'[p] = attempts[p] + (IF p \in Selected(staleCall') THEN 1 ELSE 0)]_vars

----------------------------------------------------------------------------
(* Claims about the publish routing *)

\* C1: publishToGroupsPrivately rejects without having made any publish
\* call, wherever in the list the address without the private prefix or of a
\* group the identity is no member of stands.
C1_PrivateRejectsBeforeAnyPublish ==
  (call.op = "publishToGroupsPrivately" /\ call.pc = "rejected") => call.pubs = <<>>

LacksPublicPrefix(addresses) ==
  \E i \in 1..Len(addresses) : ~StartsWith(addresses[i], PublicPrefix)

\* C2: in publishToZeroOrMoreGroups a rejection of one branch does not keep
\* the other from publishing: after a rejection of the private branch the
\* signed event of a valid public branch has been published, and after a
\* rejection of the public branch every private envelope has been.
C2_BranchesIndependent ==
  (call.op = "publishToZeroOrMoreGroups" /\ call.pc = "rejected") =>
    /\ (call.stage = "private" /\ call.rest # <<>> /\ ~LacksPublicPrefix(call.rest)) =>
          \E e \in Range(call.pubs) : e.type = "signed"
    /\ call.stage = "public" =>
          /\ Len(call.pubs) = Len(call.rest)
          /\ \A e \in Range(call.pubs) : e.type = "wrap"

\* C3: publishToGroupsPublicly called with an address that lacks the public
\* prefix, at any position, is rejected and has made no sign and no publish
\* call.
C3_PublicRejectsWithoutEffects ==
  (call.op = "publishToGroupsPublicly" /\ LacksPublicPrefix(call.addresses)) =>
    /\ call.pc = "rejected"
    /\ call.signs = 0
    /\ call.pubs = <<>>

C3_Witness ==
  /\ call.op = "publishToGroupsPublicly"
  /\ call.pc = "rejected"
  /\ Len(call.addresses) = 2
  /\ StartsWith(call.addresses[1], PublicPrefix)
  /\ ~StartsWith(call.addresses[2], PublicPrefix)

HasPrivkeyTag(template) ==
  \E i \in 1..Len(template.tags) : template.tags[i][1] = "privkey"

\* The envelope is one wrapWithFallback returns: the plain wrap, or the
\* nip04 fallback of kind 1060.
IsFallbackEnvelope(e) ==
  /\ e.type = "wrap"
  /\ \/ e.wrap.kind = 0 /\ e.wrap.algo = ""
     \/ e.wrap.kind = FallbackKind /\ e.wrap.algo = "nip04"

KeyRecipients == Users \cup { k.pubkey : k \in adminKeys }

\* C4: every published event whose template carries a privkey tag is an
\* envelope made by wrapWithFallback and addressed to one recipient pubkey.
C4_KeysOnlyInEnvelopes ==
  \A e \in Range(call.pubs) \cup Range(call.pending) :
    HasPrivkeyTag(e.template) =>
      /\ IsFallbackEnvelope(e)
      /\ e.wrap.recipient \in KeyRecipients

C4_Witness ==
  /\ call.op = "publishGroupInvites"
  /\ call.pc = "resolved"
  /\ Len(call.pubs) = 2
  /\ \A e \in Range(call.pubs) : HasPrivkeyTag(e.template)
  /\ call.pubs[1].wrap.recipient # call.pubs[2].wrap.recipient

\* A step that calls wrapWithFallback and suspends on its await.
WrapCallStep == call'.pc = "wrapping" /\ call' # call

\* C16: every wrapWithFallback call returns exactly one envelope, whose form
\* is set by the nip44 capability read at the call: the plain wrap with the
\* caller's wrap parameters when it is enabled, kind 1060 with algorithm
\* "nip04" when it is not.
C16_OneEnvelopeByCapability ==
  [][WrapCallStep =>
       /\ Len(call'.pending) = 1
       /\ call'.pending[1].type = "wrap"
       /\ IF nip44Enabled
            THEN call'.pending[1].wrap.kind = 0 /\ call'.pending[1].wrap.algo = ""
            ELSE /\ call'.pending[1].wrap.kind = FallbackKind
                 /\ call'.pending[1].wrap.algo = "nip04"]_vars

\* A fallback envelope is awaited while the capability has been enabled since
\* the call, and a plain one has been published before it.
C16_Witness ==
  /\ call.pc = "wrapping"
  /\ nip44Enabled
  /\ Len(call.pending) = 1
  /\ call.pending[1].wrap.kind = FallbackKind
  /\ Len(call.pubs) = 1
  /\ call.pubs[1].wrap.kind = 0

\* C17: a key share operation that has resolved has published exactly one
\* envelope for each distinct target pubkey, and no two of its envelopes are
\* signed by the same ephemeral key.
C17_OneEnvelopePerTarget ==
  (call.stage = "keys" /\ call.pc = "resolved") =>
    /\ \A u \in Range(call.addresses) :
          Cardinality({ i \in 1..Len(call.pubs) : call.pubs[i].wrap.recipient = u }) = 1
    /\ \A i, j \in 1..Len(call.pubs) :
          i # j => call.pubs[i].signer # call.pubs[j].signer

HasExpirationTag(tags) == \E i \in 1..Len(tags) : tags[i][1] = "expiration"

\* C18: every envelope published for an invite or a key share carries an
\* expiration tag, and no envelope of a private group post
\* (publishToGroupsPrivately, publishAsGroupAdminPrivately) carries one.
C18_ExpirationOnTransientOnly ==
  /\ \A e \in Range(call.pubs) :
       /\ call.stage = "keys" => HasExpirationTag(e.wrap.tags)
       /\ call.op \in {"publishToGroupsPrivately", "publishAsGroupAdminPrivately"} =>
            ~HasExpirationTag(e.wrap.tags)
  /\ \A e \in Range(seenCall.pubs) :
       IF e.type = "wrap" THEN HasExpirationTag(e.wrap.tags)
                          ELSE HasExpirationTag(e.template.tags)

----------------------------------------------------------------------------
(* Claims about the read receipts *)

\* C19: a markAsSeen call that gets past its guard publishes nothing and only
\* stores the pending ids in the optimistic list when there are fewer than
\* 100 of them, and makes marker events when there are 100 or more.
C19_DurableFromThreshold ==
  seenCall.allIds # <<>> =>
    IF Len(seenCall.allIds) < SeenThreshold
      THEN /\ seenCall.pc = "resolved"
           /\ seenCall.pubs = <<>>
           /\ optimisticReadReceipts = seenCall.allIds
      ELSE seenCall.pubs # <<>> \/ seenCall.pending # <<>>

\* The ids of a marker event, in the order of its e tags.
MarkerIds(event) ==
  [i \in 1..(Len(event.template.tags) - 1) |-> event.template.tags[i + 1][2]]

RECURSIVE AllMarkerIds(_)
AllMarkerIds(events) ==
  IF events = <<>> THEN <<>> ELSE MarkerIds(Head(events)) \o AllMarkerIds(Tail(events))

----------------------------------------------------------------------------
(* Claims about the group access status *)

\* C21: an entry request made while the admin key of the group is held never
\* fails and issues an invite addressed to the local identity, for a public
\* group as for a private one.
C21_AdminEntryIssuesInvite ==
  (call.op = "publishGroupEntryRequest" /\ call.stage = "keys") =>
    /\ call.pc # "rejected"
    /\ call.pc = "resolved" =>
         \E i \in 1..Len(call.pubs) : call.pubs[i].wrap.recipient = UserPubkey

\* The edges of the access lifecycle.
LifecycleEdges ==
  { <<"None", "Requested">>, <<"Requested", "Granted">>, <<"Granted", "None">> }

\* A call of one of the three access commands.
AccessCommandStep(address) ==
  \/ publishGroupEntryRequest(address)
  \/ publishGroupExitRequest(address)
  \/ resetGroupAccess(address)

\* C22: a call of publishGroupEntryRequest, publishGroupExitRequest or
\* resetGroupAccess changes an access status only along None -> Requested,
\* Requested -> Granted or Granted -> None.
C22_OnlyLifecycleEdges ==
  [][\A a \in GroupAddresses :
       AccessCommandStep(a) =>
         \/ GroupAccess(a)' = GroupAccess(a)
         \/ <<GroupAccess(a), GroupAccess(a)'>> \in LifecycleEdges]_vars

\* C23: right after publishGroupExitRequest the status of the address is None,
\* and right after publishGroupEntryRequest without the admin key it is
\* Requested, whatever the status was and whenever it was last changed.
C23_RequestSetsStatus ==
  [][\A a \in GroupAddresses :
       /\ publishGroupExitRequest(a) => GroupAccess(a)' = "None"
       /\ (publishGroupEntryRequest(a) /\ ~HasAdminKey(a)) =>
            GroupAccess(a)' = "Requested"]_vars

\* C24: every group initGroup created has exactly one admin key, whose pubkey
\* is the author part of the group's address; a created private group has
\* exactly one shared key bound to its address and a created public group has
\* none.
C24_KeysMatchKind ==
  \A k \in adminKeys :
    /\ Cardinality({ j \in adminKeys : j.group = k.group }) = 1
    /\ k.pubkey = AddressPubkey(k.group)
    /\ Cardinality({ j \in sharedKeys : j.group = k.group }) =
         (IF StartsWith(k.group, PrivatePrefix) THEN 1 ELSE 0)

C24_Witness ==
  /\ \E k \in adminKeys : StartsWith(k.group, PrivatePrefix) /\ HasSharedKey(k.group)
  /\ \E k \in adminKeys : StartsWith(k.group, PublicPrefix) /\ ~HasSharedKey(k.group)

----------------------------------------------------------------------------
(* Claims about the sessions *)

\* C25: logoutPubkey(k) raises and leaves the session map and the current
\* pubkey as they are when k is the pubkey of the active session; otherwise
\* it removes the session of k and nothing else, and the current pubkey stays.
C25_LogoutPubkeySparesCurrent ==
  [][\A k \in SessionKeys :
       logoutPubkey(k) =>
         IF LoggedIn /\ sessions[currentPubkey].pubkey = k
           THEN threw' /\ sessions' = sessions /\ currentPubkey' = currentPubkey
           ELSE /\ DOMAIN sessions' = DOMAIN sessions \ {k}
                /\ \A j \in DOMAIN sessions' : sessions'[j] = sessions[j]
                /\ currentPubkey' = currentPubkey]_vars

C25_Witness ==
  /\ threw
  /\ LoggedIn
  /\ Cardinality(DOMAIN sessions) = 2

\* A call of setSession or updateSession for key k.
SetOrUpdateStep(k) ==
  \/ \E m \in Methods : setSession(k, Session(k, m))
  \/ \E m \in Methods : updateSession(k, m)

----------------------------------------------------------------------------
(* Claims about the file upload *)

\* The polls an upload can make: one at once and one after each sleep that
\* began within the deadline.
MaxPolls == UploadTimeout \div PollSleep + 2

\* C26: an upload that was started returns or throws; it sleeps only while no
\* more than 60 seconds have passed since its start, so it makes a bounded
\* number of polls; when it gives up on the deadline it returns the event of
\* the initial response; and without a processing URL it returns that event
\* after no poll at all.
C26_UploadTerminates ==
  /\ [](/\ upload.pc = "sleep" => now - upload.startTime <= UploadTimeout
        /\ upload.polls <= MaxPolls
        /\ (upload.pc = "done" /\ upload.result = "initial" /\ upload.processing) =>
              now - upload.startTime > UploadTimeout
        /\ (upload.pc = "done" /\ ~upload.processing) =>
              upload.polls = 0 /\ upload.result = "initial")
  /\ (upload.pc \in {"provider", "post", "poll", "sleep"}) ~>
       (upload.pc \in {"done", "rejected"})

C26_Witness ==
  /\ upload.pc = "done"
  /\ upload.processing
  /\ upload.result = "initial"
  /\ upload.polls > UploadTimeout \div (PollSleep + 1)

----------------------------------------------------------------------------
(* Claims about the scroller *)

\* The number of fill loops suspended at pc.
LoopsAt(ls, pc) == Cardinality({ i \in 1..Len(ls) : ls[i].pc = pc })

\* C27: once stop() was called and start() was not called again, so that the
\* flag is down and no start is waiting, no loop begins a chunk fetch and no
\* chunk is handed to onChunk.
C27_NoWorkAfterStop ==
  [][(stopped /\ stopped' /\ ~active /\ ~debounced) =>
       /\ LoopsAt(loops', "chunk") <= LoopsAt(loops, "chunk")
       /\ LoopsAt(loops', "onChunk") <= LoopsAt(loops, "onChunk")]_vars

\* C28: at most one fill loop of a scroller is running at any time.
C28_OneLoopAtATime == Len(loops) <= 1

----------------------------------------------------------------------------
(* Claims about the handles *)

\* The verified lookups made for a pubkey.
VerifiedLookups(p) == { l \in lookups : l.pubkey = p /\ l.state = "verified" }

\* C29: once every handle lookup has settled, the handle stored for a pubkey
\* is the one verified for its profile event with the greatest created_at,
\* in whatever order the lookups completed.
C29_NewestVerifiedHandleStored ==
  (\A l \in lookups : l.state # "pending") =>
    \A p \in Pubkeys :
      VerifiedLookups(p) # {} =>
        /\ p \in DOMAIN handles
        /\ \E l \in VerifiedLookups(p) :
              /\ \A o \in VerifiedLookups(p) : o.created_at <= l.created_at
              /\ handles[p] = l.nip05

====
